---- MODULE Spec2Model ----
(***************************************************************************)
(* Model of the resume-to-job analysis pipeline of src/prebuilt/main.py    *)
(* (sanitize_input, extract_skills, analyze_resume).                       *)
(*                                                                         *)
(* Representation of Python values                                         *)
(*   str            a sequence of one-character strings, <<"A","W","S">>   *)
(*   list of str    a sequence of such sequences                           *)
(*   dict           a sequence of [k |-> key, v |-> value] pairs, in       *)
(*                  insertion order                                        *)
(*   a value whose type is decided at run time (anything json.loads        *)
(*   returns) is tagged: [kind |-> "null" | "number" | "string" | "list"   *)
(*   | "object", val |-> ...].                                             *)
(* json.loads is library code; it is modelled by its contract: a response  *)
(* body is either text that is not JSON (json.loads raises                 *)
(* JSONDecodeError) or the JSON value the text denotes.                    *)
(***************************************************************************)
EXTENDS Integers, Sequences, FiniteSets, TLC

VARIABLES
    stage,              \* which function runs: "extract_skills", "analyze_resume"
    pc,                 \* position inside that function
    resume_text,        \* analyze_resume argument (str)
    skills,             \* analyze_resume argument (list of str)
    skills_by_category, \* analyze_resume argument (dict or None)
    match_response,     \* what the oracle did on the matching call
    match_path,         \* "none", "oracle", "fallback"
    matched_skills,     \* tagged value
    unmatched_skills,   \* tagged value
    match_percentage,
    category_analysis,
    qual_response,      \* what the oracle did on the qualitative call
    detailed_analysis,
    emotion,
    extract_response,   \* what the oracle did on the extract_skills call
    extract_result,     \* the pair extract_skills returns
    max_length,         \* sanitize_input argument
    san_text,           \* sanitize_input argument (str)
    san_once,           \* sanitize_input(san_text)
    san_twice,          \* sanitize_input(san_once)
    norm_text,          \* normalize_extracted_text argument (str)
    norm_lines,         \* lines the loop at line 155 has still to visit
    norm_out,           \* the list out
    norm_result,        \* the str normalize_extracted_text returns
    norm_pass,          \* 1, or 2 when the argument is a result of the function
    calls,              \* the generate_content calls made so far, in order
    request,            \* the HTTP request a route of main.py handles
    status,             \* HTTP status of the response, 0 before it is sent
    session,            \* app.py: the session dict of every browser session
    upload_dir,         \* app.py: the files of UPLOAD_DIR and their age
    next_rid,           \* app.py: the next uuid4 value
    outcome,            \* app.py: what the last request of each session got
    raised              \* exception that left the function, or "none"

avars == <<resume_text, skills, skills_by_category, match_response, match_path,
           matched_skills, unmatched_skills, match_percentage,
           category_analysis, qual_response, detailed_analysis, emotion>>
evars == <<extract_response, extract_result>>
svars == <<max_length, san_text, san_once, san_twice>>
nvars == <<norm_text, norm_lines, norm_out, norm_result, norm_pass>>
rvars == <<request, status>>
wvars == <<session, upload_dir, next_rid, outcome>>
vars == <<stage, pc, avars, evars, svars, nvars, rvars, wvars, calls, raised>>

----------------------------------------------------------------------------
(* Bounds *)

MaxSkills == 2        \* longest enumerated skill list (required, or in a response)
MaxSkillLen == 2      \* longest skill name of the short-string inputs
MaxSanLen == 3        \* longest sanitizer input
MaxNormLen == 4       \* longest exhaustively enumerated normalizer input
MaxSessions == 2      \* browser sessions of app.py
MaxUploads == 2       \* uploads app.py stores (uuid4 values drawn)

----------------------------------------------------------------------------
(* Strings *)

\* the backtick character (a backtick cannot be written inside a string literal)
BT == "<backtick>"

UpperLetters == <<"A","B","C","D","E","F","G","H","I","J","K","L","M",
                  "N","O","P","Q","R","S","T","U","V","W","X","Y","Z">>
LowerLetters == <<"a","b","c","d","e","f","g","h","i","j","k","l","m",
                  "n","o","p","q","r","s","t","u","v","w","x","y","z">>

\* str.lower() on one character
LowerChar(c) ==
    IF \E i \in 1..Len(UpperLetters) : UpperLetters[i] = c
    THEN LowerLetters[CHOOSE i \in 1..Len(UpperLetters) : UpperLetters[i] = c]
    ELSE c

\* str.lower()
Lower(s) == [i \in 1..Len(s) |-> LowerChar(s[i])]

\* Python's  sub in text  for two str
Contains(text, sub) ==
    \E i \in 0..(Len(text) - Len(sub)) : SubSeq(text, i + 1, i + Len(sub)) = sub

Range(s) == {s[i] : i \in 1..Len(s)}

SeqsUpTo(S, n) == UNION {[1..k -> S] : k \in 0..n}

----------------------------------------------------------------------------
(* Tagged values *)

JNull == [kind |-> "null", val |-> <<>>]
JNum(n) == [kind |-> "number", val |-> n]
JStr(s) == [kind |-> "string", val |-> s]
JList(l) == [kind |-> "list", val |-> l]
JObj(pairs) == [kind |-> "object", val |-> pairs]

HasKey(pairs, key) == \E i \in 1..Len(pairs) : pairs[i].k = key
\* dict.get(key, default)
Get(pairs, key, default) ==
    IF HasKey(pairs, key)
    THEN pairs[CHOOSE i \in 1..Len(pairs) : pairs[i].k = key].v
    ELSE default

\* len(x) is defined (no TypeError)
HasLen(x) == x.kind \in {"string", "list", "object"}
\* len(x)
PyLen(x) == Len(x.val)
\* s in x, for a str s: element of a list, key of a dict, substring of a str
PyIn(s, x) ==
    CASE x.kind = "list" -> \E i \in 1..Len(x.val) : x.val[i] = s
      [] x.kind = "object" -> HasKey(x.val, s)
      [] x.kind = "string" -> Contains(x.val, s)
      [] OTHER -> FALSE
\* set(x): the elements iteration over x yields
PySet(x) ==
    CASE x.kind = "list" -> Range(x.val)
      [] x.kind = "object" -> {x.val[i].k : i \in 1..Len(x.val)}
      [] x.kind = "string" -> {<<x.val[i]>> : i \in 1..Len(x.val)}
      [] OTHER -> {}

----------------------------------------------------------------------------
(* Inputs of analyze_resume *)

AWS == <<"A","W","S">>
Python == <<"P","y","t","h","o","n">>
Leadership == <<"L","e","a","d","e","r","s","h","i","p">>
Java == <<"J","a","v","a">>

EmptyText == <<>>
ScenarioResume == <<"p","y","t","h","o","n",","," ","t","e","a","m"," ","l","e","a","d","e","r","s","h","i","p"," ","e","x","p","e","r","i","e","n","c","e">>
ScenarioSkills == <<AWS, Python, Leadership>>
\* eight required skills: 1/8, 3/8, ... are exact ties of the percentage
EightSkills == <<AWS, Python, Leadership, AWS, Python, Leadership, AWS, Python>>

\* a skill name with an underscore
NodeJs == <<"n","o","d","e","_","j","s">>
MarkedSkills == <<NodeJs, Python>>
Repeat(x, n) == [i \in 1..n |-> x]
\* lists whose percentage, with AWS alone matched or alone unmatched, falls
\* on the two sides of a band boundary: 9, 10, 89, 90
BoundarySkillLists ==
    { <<AWS>> \o Repeat(Python, 10), <<AWS>> \o Repeat(Python, 9),
      <<AWS>> \o Repeat(Python, 8), Repeat(AWS, 9) \o <<Python>> }

SkillUniverse == {AWS, Python, Leadership}
SkillLists ==
    SeqsUpTo(SkillUniverse, MaxSkills)
        \cup {ScenarioSkills, EightSkills, MarkedSkills} \cup BoundarySkillLists
CloudResume == <<"A","W","S"," ","C","l","o","u","d">>
ResumeTexts == {EmptyText, ScenarioResume, CloudResume}

CategoryNames == <<"Technical Skills", "Soft Skills", "Domain Knowledge">>
RequestTaxonomy == << [k |-> "Technical Skills", v |-> <<AWS, Python>>],
                      [k |-> "Soft Skills", v |-> <<Leadership>>],
                      [k |-> "Domain Knowledge", v |-> <<>>] >>
CategoryChoices == {"None", RequestTaxonomy}

----------------------------------------------------------------------------
(* The oracle: model.generate_content(prompt).text *)

OracleRaise == [fence |-> "raise", body |-> JNull]
\* no call made yet
NoResponse == [fence |-> "unset", body |-> JNull]
\* extract_skills has not returned
NoResult == [skills_json |-> JNull, all_skills |-> <<>>]
TextBody(t) == [kind |-> "text", val |-> t]
Response(f, b) == [fence |-> f, body |-> b]

Sorry == <<"s","o","r","r","y">>
GarbageTexts == { <<"A","W","S",","," ","P","y","t","h","o","n">>, Sorry }

\* re.search(r'BT BT BT json(.*?)BT BT BT', raw, re.DOTALL) (BT the backtick) followed by json.loads of the
\* fenced interior, or of the whole text when there is no complete fence.
\* An opening fence without a closing one leaves the fence in the text that
\* is parsed, which is then not JSON.
ExtractJson(resp) ==
    IF resp.fence \in {"none", "closed"} /\ resp.body.kind # "text"
    THEN [ok |-> TRUE, val |-> resp.body]
    ELSE [ok |-> FALSE, val |-> JNull]

MatchedValues ==
    {JNull, JNum(0), JStr(Python)}
        \cup {JList(l) : l \in SeqsUpTo({AWS, Python, Java}, MaxSkills)}
UnmatchedValues == {JNull, JList(<<>>), JList(<<AWS>>), JList(<<Java>>)}

MatchObjects ==
    {JObj(<<[k |-> "matched_skills", v |-> m], [k |-> "unmatched_skills", v |-> u]>>) :
        m \in MatchedValues, u \in UnmatchedValues}
    \cup {JObj(<<[k |-> "matched_skills", v |-> m]>>) : m \in MatchedValues}
    \cup {JObj(<<[k |-> "unmatched_skills", v |-> u]>>) : u \in UnmatchedValues}
    \cup {JObj(<<>>)}

MatchResponses ==
    {OracleRaise}
    \cup {Response("none", b) : b \in MatchObjects}
    \cup {Response("closed", JObj(<<[k |-> "matched_skills", v |-> JList(<<Python>>)],
                                      [k |-> "unmatched_skills", v |-> JList(<<AWS>>)]>>)),
          Response("none", JList(<<AWS>>)), Response("closed", JNull),
          Response("none", JNum(0)), Response("none", JStr(Python))}
    \cup {Response(f, TextBody(Sorry)) : f \in {"none", "closed", "unclosed"}}
    \cup {Response("unclosed", JObj(<<[k |-> "matched_skills", v |-> JList(<<Python>>)],
                                        [k |-> "unmatched_skills", v |-> JList(<<AWS>>)]>>))}

\* the sanitizer variables while another function runs
SanitizerIdle ==
    max_length = 0 /\ san_text = <<>> /\ san_once = <<>> /\ san_twice = <<>>

\* the normalizer variables while another function runs
NormalizerIdle ==
    /\ norm_text = <<>> /\ norm_lines = <<>> /\ norm_out = <<>> /\ norm_result = <<>>
    /\ norm_pass = 1

\* no request is being handled by a route of main.py
NoRequest == [route |-> "none", fields |-> <<>>]
RoutesIdle == request = NoRequest /\ status = 0

\* app.py: browser sessions, and the files UPLOAD_DIR can hold: the stored
\* resume and the optimized PDF of each uuid
Sessions == 1..MaxSessions
FileNames == {"resume", "optimized"} \X (1..MaxUploads)
\* a session without keys; 0 stands for a key that is not set
EmptySession == [resume_id |-> 0, resume_file |-> 0, optimized_file |-> 0]
\* app.py before any request
\* no request of app.py was answered yet
NoOutcome == [session |-> 0, route |-> "none", result |-> "none"]
SessionIdle ==
    /\ session = [s \in Sessions |-> EmptySession]
    /\ upload_dir = [f \in FileNames |-> "absent"]
    /\ next_rid = 1
    /\ outcome = NoOutcome

InvokeWithRetry(log, site) == log \o <<site, site>>
\* model.generate_content(prompt) is called once at this call site
Invoke(log, site) == Append(log, site)

----------------------------------------------------------------------------
(* analyze_resume *)

\* lines 898-906 run to the end without an exception
MatchPrimaryOk(resp) ==
    /\ resp.fence # "raise"
    /\ ExtractJson(resp).ok
    /\ ExtractJson(resp).val.kind = "object"

FallbackMatchedCaseSensitive(text, sk) ==
    LET Test(s) == Contains(text, s) IN SelectSeq(sk, Test)
\* [s for s in skills if s.lower() in resume_text.lower()]
FallbackMatched(text, sk) ==
    LET Test(s) == Contains(Lower(text), Lower(s)) IN SelectSeq(sk, Test)

\* [s for s in skills if s not in matched_skills]
FallbackUnmatched(sk, matched) ==
    LET Test(s) == ~ PyIn(s, JList(matched)) IN SelectSeq(sk, Test)

\* round(x) of the quotient p/q, q > 0: nearest integer, ties to even
PyRoundHalfUp(p, q) == (2 * p + q) \div (2 * q)
PyRound(p, q) ==
    LET d == p \div q
        r == p % q
    IN  IF 2 * r < q THEN d
        ELSE IF 2 * r > q THEN d + 1
        ELSE IF d % 2 = 0 THEN d ELSE d + 1

PctTruncating(m, n) == IF n = 0 THEN 0 ELSE (100 * m) \div n
\* round((m / n) * 100) if n else 0.  The quotient and the product are
\* doubles in the source; for n < 40 the double result equals the exact one.
Pct(m, n) == IF n = 0 THEN 0 ELSE PyRound(100 * m, n)

InitAnalyze ==
    /\ stage = "analyze_resume"
    /\ pc = "start"
    /\ resume_text \in ResumeTexts
    /\ skills \in SkillLists
    /\ skills_by_category \in CategoryChoices
    /\ match_response = NoResponse
    /\ match_path = "none"
    /\ matched_skills = JNull
    /\ unmatched_skills = JNull
    /\ match_percentage = 0
    /\ category_analysis = <<>>
    /\ qual_response = NoResponse
    /\ detailed_analysis = JNull
    /\ emotion = "none"
    /\ extract_response = NoResponse
    /\ extract_result = NoResult
    /\ SanitizerIdle
    /\ NormalizerIdle
    /\ RoutesIdle
    /\ SessionIdle
    /\ calls = <<>>
    /\ raised = "none"

\* lines 875-880
DefaultCategories ==
    /\ stage = "analyze_resume" /\ pc = "start"
    /\ skills_by_category' =
         IF skills_by_category = "None"
         THEN << [k |-> "Technical Skills", v |-> skills],
                 [k |-> "Soft Skills", v |-> <<>>],
                 [k |-> "Domain Knowledge", v |-> <<>>] >>
         ELSE skills_by_category
    /\ pc' = "match"
    /\ UNCHANGED <<stage, resume_text, skills, match_response, match_path,
                   matched_skills, unmatched_skills, match_percentage,
                   category_analysis, qual_response, detailed_analysis,
                   emotion, evars, svars, nvars, rvars, wvars, calls, raised>>

\* lines 897-906: the try block completes
MatchOracle ==
    /\ stage = "analyze_resume" /\ pc = "match"
    /\ calls' = Invoke(calls, "match")
    /\ \E resp \in MatchResponses :
         /\ MatchPrimaryOk(resp)
         /\ match_response' = resp
         /\ matched_skills' = Get(ExtractJson(resp).val.val, "matched_skills", JList(<<>>))
         /\ unmatched_skills' = Get(ExtractJson(resp).val.val, "unmatched_skills", JList(<<>>))
    /\ match_path' = "oracle"
    /\ pc' = "percentage"
    /\ UNCHANGED <<stage, resume_text, skills, skills_by_category, match_percentage,
                   category_analysis, qual_response, detailed_analysis,
                   emotion, evars, svars, nvars, rvars, wvars, raised>>

\* lines 907-910: any exception of the try block
MatchFallback ==
    /\ stage = "analyze_resume" /\ pc = "match"
    /\ calls' = Invoke(calls, "match")
    /\ \E resp \in MatchResponses :
         /\ ~ MatchPrimaryOk(resp)
         /\ match_response' = resp
    /\ matched_skills' = JList(FallbackMatched(resume_text, skills))
    /\ unmatched_skills' =
         JList(FallbackUnmatched(skills, FallbackMatched(resume_text, skills)))
    /\ match_path' = "fallback"
    /\ pc' = "percentage"
    /\ UNCHANGED <<stage, resume_text, skills, skills_by_category, match_percentage,
                   category_analysis, qual_response, detailed_analysis,
                   emotion, evars, svars, nvars, rvars, wvars, raised>>

\* line 911
Percentage ==
    /\ stage = "analyze_resume" /\ pc = "percentage"
    /\ IF skills # <<>> /\ ~ HasLen(matched_skills)
       THEN /\ raised' = "TypeError"
            /\ pc' = "raised"
            /\ UNCHANGED match_percentage
       ELSE /\ match_percentage' =
                 IF skills # <<>> THEN Pct(PyLen(matched_skills), Len(skills)) ELSE 0
            /\ pc' = "categories"
            /\ UNCHANGED raised
    /\ UNCHANGED <<stage, resume_text, skills, skills_by_category, match_response,
                   match_path, matched_skills, unmatched_skills,
                   category_analysis, qual_response, detailed_analysis,
                   emotion, evars, svars, nvars, rvars, wvars, calls>>

\* one entry of category_analysis, lines 918-925
CategoryEntry(category_skills, matched, unmatched) ==
    LET InMatched(s) == PyIn(s, matched)
        InUnmatched(s) == PyIn(s, unmatched)
        m == SelectSeq(category_skills, InMatched)
        u == SelectSeq(category_skills, InUnmatched)
    IN  [matched |-> m,
         unmatched |-> u,
         match_percentage |->
             IF category_skills # <<>> THEN Pct(Len(m), Len(category_skills)) ELSE 0]

\* lines 916-925
Aggregate(by_category, matched, unmatched) ==
    [i \in 1..Len(by_category) |->
        [k |-> by_category[i].k,
         v |-> CategoryEntry(by_category[i].v, matched, unmatched)]]

\* s in x is defined for a str s (no TypeError)
IsContainer(x) == x.kind \in {"string", "list", "object"}

\* lines 916-933: category_analysis, then the check/cross text of the prompt
Categories ==
    /\ stage = "analyze_resume" /\ pc = "categories"
    /\ IF /\ \E i \in 1..Len(skills_by_category) : skills_by_category[i].v # <<>>
          /\ ~ (IsContainer(matched_skills) /\ IsContainer(unmatched_skills))
       THEN /\ raised' = "TypeError"
            /\ pc' = "raised"
            /\ UNCHANGED category_analysis
       ELSE /\ category_analysis' =
                 Aggregate(skills_by_category, matched_skills, unmatched_skills)
            /\ pc' = "qualitative"
            /\ UNCHANGED raised
    /\ UNCHANGED <<stage, resume_text, skills, skills_by_category, match_response,
                   match_path, matched_skills, unmatched_skills, match_percentage,
                   qual_response, detailed_analysis, emotion, evars, svars, nvars, rvars, wvars, calls>>

QualObject ==
    JObj(<< [k |-> "overall_assessment", v |-> JStr(<<"*","*","S","t","r","o","n","g","*","*"," ","f","i","t"," ","w","i","t","h"," ",BT,"P","y","t","h","o","n",BT>>)],
            [k |-> "ats_score", v |-> JNum(80)],
            [k |-> "quick_fixes", v |-> JList(<<JStr(<<"_","_","a","d","d","_","_"," ","~","~","x","~","~">>)>>)],
            [k |-> "behavioral_analysis",
             v |-> JObj(<<[k |-> "leadership", v |-> JStr(<<"_","o","k","_">>)]>>)] >>)

QualResponses ==
    {OracleRaise}
    \cup {Response("closed", QualObject), Response("none", JList(<<JStr(<<BT,"a">>), JStr(<<"*","_","*">>)>>))}
    \cup {Response(f, TextBody(Sorry)) : f \in {"none", "unclosed"}}
    \cup {Response("unclosed", QualObject)}

\* lines 981-990 run to the end without an exception
QualPrimaryOk(resp) == resp.fence # "raise" /\ ExtractJson(resp).ok

Tagged(strs) == [i \in 1..Len(strs) |-> JStr(strs[i])]
Take(s, n) == SubSeq(s, 1, IF Len(s) < n THEN Len(s) ELSE n)

\* lines 994-1000
Failsafe(sk, matched) ==
    LET NotMatched(s) == ~ PyIn(s, matched) IN
    JObj(<< [k |-> "overall_assessment",
             v |-> JList(<<JStr(<<"T","h","i","s"," ","i","s"," ","f","a","i","l","s","a","f","e"," ","c","a","l","l","b","a","c","k","."," ","S","o","m","e","t","h","i","n","g"," ","f","a","i","l","e","d","."," ","C","h","e","c","k"," ","c","o","d","e",".">>)>>)],
            [k |-> "recommendations",
             v |-> JList(<<JStr(<<"E","n","s","u","r","e"," ","y","o","u","r"," ","r","e","s","u","m","e"," ","h","i","g","h","l","i","g","h","t","s"," ","r","e","l","e","v","a","n","t"," ","s","k","i","l","l","s"," ","e","x","p","l","i","c","i","t","l","y">>)>>)],
            [k |-> "priority_skills", v |-> JList(Tagged(Take(SelectSeq(sk, NotMatched), 3)))],
            [k |-> "sections_to_improve",
             v |-> JList(<<JStr(<<"S","k","i","l","l","s"," ","s","e","c","t","i","o","n">>), JStr(<<"W","o","r","k"," ","e","x","p","e","r","i","e","n","c","e">>)>>)],
            [k |-> "ats_score",
             v |-> JList(<<JStr(<<"N","O"," ","A","N","A","L","Y","S","I","S"," ","A","V","A","I","L","A","B","L","E"," ","-"," ","F","a","i","l","s","a","f","e"," ","E","x","c","e","p","t","i","o","n">>)>>)] >>)

\* lines 980-990: the try block completes
QualOracle ==
    /\ stage = "analyze_resume" /\ pc = "qualitative"
    /\ calls' = Invoke(calls, "qualitative")
    /\ \E resp \in QualResponses :
         /\ QualPrimaryOk(resp)
         /\ qual_response' = resp
         /\ detailed_analysis' = ExtractJson(resp).val
    /\ pc' = "clean_md"
    /\ UNCHANGED <<stage, resume_text, skills, skills_by_category, match_response,
                   match_path, matched_skills, unmatched_skills, match_percentage,
                   category_analysis, emotion, evars, svars, nvars, rvars, wvars, raised>>

\* lines 992-1000: any exception of the try block
QualFailsafe ==
    /\ stage = "analyze_resume" /\ pc = "qualitative"
    /\ calls' = Invoke(calls, "qualitative")
    /\ \E resp \in QualResponses :
         /\ ~ QualPrimaryOk(resp)
         /\ qual_response' = resp
    /\ detailed_analysis' = Failsafe(skills, matched_skills)
    /\ pc' = "clean_md"
    /\ UNCHANGED <<stage, resume_text, skills, skills_by_category, match_response,
                   match_path, matched_skills, unmatched_skills, match_percentage,
                   category_analysis, emotion, evars, svars, nvars, rvars, wvars, raised>>

\* re.sub(r'(\*\*|BT+|__?|~~)', '', txt), BT the backtick
RECURSIVE _strip_md(_)
_strip_md(txt) ==
    IF txt = <<>> THEN <<>>
    ELSE IF Len(txt) >= 2 /\ SubSeq(txt, 1, 2) \in {<<"*","*">>, <<"~","~">>}
         THEN _strip_md(SubSeq(txt, 3, Len(txt)))
    ELSE IF txt[1] \in {BT, "_"}
         THEN _strip_md(Tail(txt))
    ELSE <<txt[1]>> \o _strip_md(Tail(txt))

\* lines 1005-1012
RECURSIVE _clean_md(_)
_clean_md(obj) ==
    CASE obj.kind = "string" -> JStr(_strip_md(obj.val))
      [] obj.kind = "list" -> JList([i \in 1..Len(obj.val) |-> _clean_md(obj.val[i])])
      [] obj.kind = "object" ->
            JObj([i \in 1..Len(obj.val) |->
                    [k |-> obj.val[i].k, v |-> _clean_md(obj.val[i].v)]])
      [] OTHER -> obj

\* line 1014
CleanMd ==
    /\ stage = "analyze_resume" /\ pc = "clean_md"
    /\ detailed_analysis' = _clean_md(detailed_analysis)
    /\ pc' = "classify"
    /\ UNCHANGED <<stage, resume_text, skills, skills_by_category, match_response,
                   match_path, matched_skills, unmatched_skills, match_percentage,
                   category_analysis, qual_response, emotion, evars, svars, nvars, rvars, wvars, calls, raised>>

EmotionClosedBands(p) ==
    IF p <= 10 THEN "Critical Gaps"
    ELSE IF p <= 20 THEN "Major Gaps"
    ELSE IF p <= 30 THEN "Substantial Gaps"
    ELSE IF p <= 40 THEN "Moderate Gaps"
    ELSE IF p <= 50 THEN "Minor Gaps"
    ELSE IF p <= 60 THEN "Fair Match"
    ELSE IF p <= 70 THEN "Good Match"
    ELSE IF p <= 80 THEN "Strong Match"
    ELSE IF p <= 90 THEN "Excellent Match"
    ELSE "Outstanding Fit"
\* lines 1019-1038
Emotion(p) ==
    IF p < 10 THEN "Critical Gaps"
    ELSE IF p < 20 THEN "Major Gaps"
    ELSE IF p < 30 THEN "Substantial Gaps"
    ELSE IF p < 40 THEN "Moderate Gaps"
    ELSE IF p < 50 THEN "Minor Gaps"
    ELSE IF p < 60 THEN "Fair Match"
    ELSE IF p < 70 THEN "Good Match"
    ELSE IF p < 80 THEN "Strong Match"
    ELSE IF p < 90 THEN "Excellent Match"
    ELSE "Outstanding Fit"

\* lines 1019-1048: classify and return the report
Classify ==
    /\ stage = "analyze_resume" /\ pc = "classify"
    /\ emotion' = Emotion(match_percentage)
    /\ pc' = "done"
    /\ UNCHANGED <<stage, resume_text, skills, skills_by_category, match_response,
                   match_path, matched_skills, unmatched_skills, match_percentage,
                   category_analysis, qual_response, detailed_analysis, evars, svars, nvars, rvars, wvars, calls, raised>>

----------------------------------------------------------------------------
(* extract_skills *)

Whitespace == {" ", "\t", "\n"}

\* str.strip()
RECURSIVE LStrip(_)
LStrip(t) == IF t # <<>> /\ t[1] \in Whitespace THEN LStrip(Tail(t)) ELSE t
RECURSIVE RStrip(_)
RStrip(t) ==
    IF t # <<>> /\ t[Len(t)] \in Whitespace THEN RStrip(SubSeq(t, 1, Len(t) - 1)) ELSE t
Strip(t) == RStrip(LStrip(t))

RECURSIVE SplitCommaNonEmpty(_)
SplitCommaNonEmpty(t) ==
    IF \E i \in 1..Len(t) : t[i] = ","
    THEN LET i == CHOOSE j \in 1..Len(t) : t[j] = "," /\ \A h \in 1..(j - 1) : t[h] # ","
         IN  (IF i = 1 THEN <<>> ELSE <<SubSeq(t, 1, i - 1)>>)
                 \o SplitCommaNonEmpty(SubSeq(t, i + 1, Len(t)))
    ELSE IF t = <<>> THEN <<>> ELSE <<t>>
\* str.split(","): the pieces between the commas, empty pieces included
RECURSIVE SplitComma(_)
SplitComma(t) ==
    IF \E i \in 1..Len(t) : t[i] = ","
    THEN LET i == CHOOSE j \in 1..Len(t) : t[j] = "," /\ \A h \in 1..(j - 1) : t[h] # ","
         IN  <<SubSeq(t, 1, i - 1)>> \o SplitComma(SubSeq(t, i + 1, Len(t)))
    ELSE <<t>>

FenceOpen == <<BT, BT, BT, "j", "s", "o", "n">>
FenceClose == <<BT, BT, BT>>

DigitChars == <<"0", "1", "2", "3", "4", "5", "6", "7", "8", "9">>
\* str(n) for an int n >= 0
RECURSIVE Digits(_)
Digits(n) ==
    IF n < 10 THEN <<DigitChars[n + 1]>>
    ELSE Digits(n \div 10) \o <<DigitChars[(n % 10) + 1]>>

\* the characters of the keys the extraction responses use
KeyChars(key) ==
    CASE key = "Technical Skills" -> <<"T","e","c","h","n","i","c","a","l"," ","S","k","i","l","l","s">>
      [] key = "Soft Skills" -> <<"S","o","f","t"," ","S","k","i","l","l","s">>
      [] key = "Domain Knowledge" -> <<"D","o","m","a","i","n"," ","K","n","o","w","l","e","d","g","e">>
      [] key = "skills" -> <<"s","k","i","l","l","s">>

\* the text the oracle writes for a JSON value: items separated by ", ",
\* keys and values by ": "
RECURSIVE Serialize(_)
Serialize(v) ==
    LET RECURSIVE JoinItems(_)
        JoinItems(items) ==
            IF items = <<>> THEN <<>>
            ELSE IF Len(items) = 1 THEN items[1]
            ELSE items[1] \o <<",", " ">> \o JoinItems(Tail(items))
    IN  CASE v.kind = "null" -> <<"n", "u", "l", "l">>
          [] v.kind = "number" -> Digits(v.val)
          [] v.kind = "string" -> <<"\"">> \o v.val \o <<"\"">>
          [] v.kind = "list" ->
                <<"[">> \o JoinItems([i \in 1..Len(v.val) |-> Serialize(JStr(v.val[i]))]) \o <<"]">>
          [] v.kind = "object" ->
                <<"{">>
                \o JoinItems([i \in 1..Len(v.val) |->
                      <<"\"">> \o KeyChars(v.val[i].k) \o <<"\"", ":", " ">>
                          \o Serialize(v.val[i].v)])
                \o <<"}">>

\* response.text: the body, inside the fence the response has
ResponseText(resp) ==
    LET body == IF resp.body.kind = "text" THEN resp.body.val ELSE Serialize(resp.body)
    IN  CASE resp.fence = "closed" -> FenceOpen \o body \o FenceClose
          [] resp.fence = "unclosed" -> FenceOpen \o body
          [] OTHER -> body

\* response.text.strip()
RawText(resp) == Strip(ResponseText(resp))

Chars(t) == [i \in 1..Len(t) |-> <<t[i]>>]
Keys(pairs) == [i \in 1..Len(pairs) |-> pairs[i].k]

\* list.extend(x) accepts x (x is iterable)
Iterable(x) == x.kind \in {"string", "list", "object"}
\* the items list.extend(x) appends
Items(x) ==
    CASE x.kind = "list" -> x.val
      [] x.kind = "string" -> Chars(x.val)
      [] x.kind = "object" -> Keys(x.val)
      [] OTHER -> <<>>

\* lines 633-635 finish without an exception.  Iterating a dict yields its
\* keys; a non-empty list or str yields elements that cannot index it to an
\* iterable (TypeError or IndexError); null and numbers are not iterable.
FlattenOk(skills_json) ==
    CASE skills_json.kind = "object" ->
            \A i \in 1..Len(skills_json.val) : Iterable(skills_json.val[i].v)
      [] skills_json.kind \in {"list", "string"} -> skills_json.val = <<>>
      [] OTHER -> FALSE

\* lines 633-635
RECURSIVE FlattenPairs(_)
FlattenPairs(pairs) ==
    IF pairs = <<>> THEN <<>>
    ELSE Items(pairs[1].v) \o FlattenPairs(Tail(pairs))
Flatten(skills_json) ==
    IF skills_json.kind = "object" THEN FlattenPairs(skills_json.val) ELSE <<>>

\* lines 641-649
CommaFallback(skills_text) ==
    LET sk == [i \in 1..Len(SplitComma(skills_text)) |-> Strip(SplitComma(skills_text)[i])]
    IN  [skills_json |-> JObj(<< [k |-> "Technical Skills", v |-> JList(sk)],
                                 [k |-> "Soft Skills", v |-> JList(<<>>)],
                                 [k |-> "Domain Knowledge", v |-> JList(<<>>)] >>),
         all_skills |-> sk]

ExtractObjects ==
    { JObj(<<>>),
      JObj(<< [k |-> "Technical Skills", v |-> JList(<<AWS, Python>>)],
              [k |-> "Soft Skills", v |-> JList(<<Leadership>>)],
              [k |-> "Domain Knowledge", v |-> JList(<<>>)] >>),
      JObj(<< [k |-> "Technical Skills", v |-> JList(<<AWS>>)] >>),
      JObj(<< [k |-> "Technical Skills", v |-> JNull] >>),
      JObj(<< [k |-> "Technical Skills", v |-> JList(<<AWS>>)],
              [k |-> "Soft Skills", v |-> JNum(3)] >>),
      JObj(<< [k |-> "Technical Skills", v |-> JStr(AWS)] >>),
      JObj(<< [k |-> "skills",
               v |-> JObj(<<[k |-> "Technical Skills", v |-> JList(<<AWS>>)]>>)] >>) }

ExtractBodies ==
    ExtractObjects
    \cup {JList(<<>>), JList(<<AWS, Python>>), JNum(5), JNull, JStr(<<>>), JStr(AWS)}

\* JSON the oracle wrote after an opening fence it never closed
UnclosedBodies ==
    { JObj(<< [k |-> "Technical Skills", v |-> JList(<<AWS, Python>>)],
              [k |-> "Soft Skills", v |-> JList(<<Leadership>>)],
              [k |-> "Domain Knowledge", v |-> JList(<<>>)] >>),
      JList(<<AWS, Python>>) }

ExtractTexts == GarbageTexts \cup {<<>>, <<" ","A","W","S"," ",",","P","y","t","h","o","n",",",","," ">>}

ExtractResponses ==
    {OracleRaise}
    \cup {Response(f, b) : f \in {"none", "closed"}, b \in ExtractBodies}
    \cup {Response(f, TextBody(t)) : f \in {"none", "closed", "unclosed"}, t \in ExtractTexts}
    \cup {Response("unclosed", b) : b \in UnclosedBodies}

InitExtract ==
    /\ stage = "extract_skills"
    /\ pc = "call"
    /\ resume_text = EmptyText
    /\ skills = <<>>
    /\ skills_by_category = "None"
    /\ match_response = NoResponse
    /\ match_path = "none"
    /\ matched_skills = JNull
    /\ unmatched_skills = JNull
    /\ match_percentage = 0
    /\ category_analysis = <<>>
    /\ qual_response = NoResponse
    /\ detailed_analysis = JNull
    /\ emotion = "none"
    /\ extract_response = NoResponse
    /\ extract_result = NoResult
    /\ SanitizerIdle
    /\ NormalizerIdle
    /\ RoutesIdle
    /\ SessionIdle
    /\ calls = <<>>
    /\ raised = "none"

\* line 618: generate_content raises; the call is outside the try block
ExtractOracleRaises ==
    /\ stage = "extract_skills" /\ pc = "call"
    /\ calls' = Invoke(calls, "extract")
    /\ extract_response' = OracleRaise
    /\ raised' = "OracleError"
    /\ pc' = "raised"
    /\ UNCHANGED <<stage, avars, svars, nvars, rvars, wvars, extract_result>>

\* lines 618-637: the response parses and is flattened
ExtractParsed ==
    /\ stage = "extract_skills" /\ pc = "call"
    /\ calls' = Invoke(calls, "extract")
    /\ \E resp \in ExtractResponses :
         /\ resp.fence # "raise"
         /\ ExtractJson(resp).ok
         /\ FlattenOk(ExtractJson(resp).val)
         /\ extract_response' = resp
         /\ extract_result' = [skills_json |-> ExtractJson(resp).val,
                               all_skills |-> Flatten(ExtractJson(resp).val)]
    /\ pc' = "done"
    /\ UNCHANGED <<stage, avars, svars, nvars, rvars, wvars, raised>>

\* lines 618-635: the response parses, flattening it raises an exception
\* that is neither JSONDecodeError nor AttributeError
ExtractFlattenRaises ==
    /\ stage = "extract_skills" /\ pc = "call"
    /\ calls' = Invoke(calls, "extract")
    /\ \E resp \in ExtractResponses :
         /\ resp.fence # "raise"
         /\ ExtractJson(resp).ok
         /\ ~ FlattenOk(ExtractJson(resp).val)
         /\ extract_response' = resp
    /\ raised' = "TypeError"
    /\ pc' = "raised"
    /\ UNCHANGED <<stage, avars, svars, nvars, rvars, wvars, extract_result>>

\* lines 639-649: json.loads raised JSONDecodeError
ExtractFallback ==
    /\ stage = "extract_skills" /\ pc = "call"
    /\ calls' = Invoke(calls, "extract")
    /\ \E resp \in ExtractResponses :
         /\ resp.fence # "raise"
         /\ ~ ExtractJson(resp).ok
         /\ extract_response' = resp
         /\ extract_result' = CommaFallback(RawText(resp))
    /\ pc' = "done"
    /\ UNCHANGED <<stage, avars, svars, nvars, rvars, wvars, raised>>

Init == InitAnalyze \/ InitExtract

Next ==
    \/ DefaultCategories
    \/ MatchOracle
    \/ MatchFallback
    \/ Percentage
    \/ Categories
    \/ QualOracle
    \/ QualFailsafe
    \/ CleanMd
    \/ Classify
    \/ ExtractOracleRaises
    \/ ExtractParsed
    \/ ExtractFlattenRaises
    \/ ExtractFallback

Spec == Init /\ [][Next]_vars

----------------------------------------------------------------------------
(* analyze_resume on exhaustively enumerated short texts and skill names *)

TextAlphabet == {"a", "A", "B"}
NameAlphabet == {"A", "b"}
ShortNames == {<<>>} \cup {<<c>> : c \in NameAlphabet}
SkillNames == SeqsUpTo(NameAlphabet, MaxSkillLen)
\* lists of one or two names of any enumerated length, and longer lists of
\* names of at most one character
ShortSkillLists ==
    SeqsUpTo(ShortNames, MaxSkills)
        \cup {<<n>> : n \in SkillNames}
        \cup {<<n, m>> : n \in SkillNames, m \in SkillNames}

InitFallback ==
    /\ stage = "analyze_resume"
    /\ pc = "start"
    /\ resume_text \in SeqsUpTo(TextAlphabet, MaxSkillLen + 1)
    /\ skills \in ShortSkillLists
    /\ skills_by_category = "None"
    /\ match_response = NoResponse
    /\ match_path = "none"
    /\ matched_skills = JNull
    /\ unmatched_skills = JNull
    /\ match_percentage = 0
    /\ category_analysis = <<>>
    /\ qual_response = NoResponse
    /\ detailed_analysis = JNull
    /\ emotion = "none"
    /\ extract_response = NoResponse
    /\ extract_result = NoResult
    /\ SanitizerIdle
    /\ NormalizerIdle
    /\ RoutesIdle
    /\ SessionIdle
    /\ calls = <<>>
    /\ raised = "none"

NextFallback ==
    \/ DefaultCategories
    \/ MatchFallback

SpecFallback == InitFallback /\ [][NextFallback]_vars

----------------------------------------------------------------------------
(* sanitize_input *)

DefaultMaxLength == 50000

\* characters matched by _CONTROL_CHARS, [\x00-\x1F\x7F-\x9F]; the ones
\* without a literal are written <0x..>
ControlChars == {"\t", "\n", "<0x00>", "<0x7F>", "<0x85>"}

\* str.replace(old, new): occurrences of old, leftmost first, not overlapping
RECURSIVE Replace(_, _, _)
Replace(text, old, new) ==
    IF Len(text) < Len(old) THEN text
    ELSE IF SubSeq(text, 1, Len(old)) = old
         THEN new \o Replace(SubSeq(text, Len(old) + 1, Len(text)), old, new)
         ELSE <<text[1]>> \o Replace(Tail(text), old, new)

\* _CONTROL_CHARS.sub('', text)
DropControl(text) == LET Keep(c) == c \notin ControlChars IN SelectSeq(text, Keep)

HtmlEscapeNone(text) == text
\* html.escape(text): & first, then < > " '
HtmlEscape(text) ==
    LET t1 == Replace(text, <<"&">>, <<"&","a","m","p",";">>)
        t2 == Replace(t1, <<"<">>, <<"&","l","t",";">>)
        t3 == Replace(t2, <<">">>, <<"&","g","t",";">>)
        t4 == Replace(t3, <<"\"">>, <<"&","q","u","o","t",";">>)
    IN  Replace(t4, <<"'">>, <<"&","#","x","2","7",";">>)

\* the sequences of the loop at line 137, in order
ProtectedSeqs == << <<BT, BT, BT>>, <<"\"", "\"", "\"">>, <<"'", "'", "'">>,
                    <<BT>>, <<"{">>, <<"}">>, <<"$">>, <<"\\">> >>

\* ''.join('\\' + ch for ch in seq)
RECURSIVE Safe(_)
Safe(seq) == IF seq = <<>> THEN <<>> ELSE <<"\\", seq[1]>> \o Safe(Tail(seq))

\* lines 137-139, for the sequences from position i on
RECURSIVE Neutralize(_, _)
Neutralize(text, i) ==
    IF i > Len(ProtectedSeqs) THEN text
    ELSE Neutralize(Replace(text, ProtectedSeqs[i], Safe(ProtectedSeqs[i])), i + 1)

sanitize_truncating_last(text, max_len) ==
    Take(Neutralize(HtmlEscape(DropControl(text)), 1), max_len)
\* lines 120-141
sanitize_input(text, max_len) ==
    Neutralize(HtmlEscape(DropControl(Take(text, max_len))), 1)

SanAlphabet == {"a", "\t", "<", ">", "&", "\"", "'", BT, "{", "}", "$", "\\"}
MaxLengths == {DefaultMaxLength, 0, 1, 2}

InitSanitize ==
    /\ stage = "sanitize_input"
    /\ pc = "sanitize"
    /\ max_length \in MaxLengths
    /\ san_text \in SeqsUpTo(SanAlphabet, MaxSanLen)
    /\ san_once = <<>>
    /\ san_twice = <<>>
    /\ resume_text = EmptyText
    /\ skills = <<>>
    /\ skills_by_category = "None"
    /\ match_response = NoResponse
    /\ match_path = "none"
    /\ matched_skills = JNull
    /\ unmatched_skills = JNull
    /\ match_percentage = 0
    /\ category_analysis = <<>>
    /\ qual_response = NoResponse
    /\ detailed_analysis = JNull
    /\ emotion = "none"
    /\ extract_response = NoResponse
    /\ extract_result = NoResult
    /\ NormalizerIdle
    /\ RoutesIdle
    /\ SessionIdle
    /\ calls = <<>>
    /\ raised = "none"

\* sanitize_input applied to a request field
SanitizeOnce ==
    /\ stage = "sanitize_input" /\ pc = "sanitize"
    /\ san_once' = sanitize_input(san_text, max_length)
    /\ pc' = "resanitize"
    /\ UNCHANGED <<stage, avars, evars, nvars, rvars, wvars, calls, max_length, san_text, san_twice, raised>>

\* sanitize_input applied to its own result
SanitizeTwice ==
    /\ stage = "sanitize_input" /\ pc = "resanitize"
    /\ san_twice' = sanitize_input(san_once, max_length)
    /\ pc' = "done"
    /\ UNCHANGED <<stage, avars, evars, nvars, rvars, wvars, calls, max_length, san_text, san_once, raised>>

NextSanitize == SanitizeOnce \/ SanitizeTwice

SpecSanitize == InitSanitize /\ [][NextSanitize]_vars

----------------------------------------------------------------------------
(* normalize_extracted_text *)

\* the analyze_resume and extract_skills variables while another function runs
AnalyzeIdle ==
    /\ resume_text = EmptyText
    /\ skills = <<>>
    /\ skills_by_category = "None"
    /\ match_response = NoResponse
    /\ match_path = "none"
    /\ matched_skills = JNull
    /\ unmatched_skills = JNull
    /\ match_percentage = 0
    /\ category_analysis = <<>>
    /\ qual_response = NoResponse
    /\ detailed_analysis = JNull
    /\ emotion = "none"
ExtractIdle == extract_response = NoResponse /\ extract_result = NoResult

\* str.splitlines(), for the line boundary "\n"
RECURSIVE SplitLines(_)
SplitLines(t) ==
    IF t = <<>> THEN <<>>
    ELSE IF \A i \in 1..Len(t) : t[i] # "\n" THEN <<t>>
    ELSE LET i == CHOOSE j \in 1..Len(t) :
                      t[j] = "\n" /\ \A h \in 1..(j - 1) : t[h] # "\n"
         IN  <<SubSeq(t, 1, i - 1)>> \o SplitLines(SubSeq(t, i + 1, Len(t)))

\* "\n".join(l)
RECURSIVE JoinLines(_)
JoinLines(l) ==
    IF l = <<>> THEN <<>>
    ELSE IF Len(l) = 1 THEN l[1]
    ELSE l[1] \o <<"\n">> \o JoinLines(Tail(l))

\* str.isupper(): some cased character, and no lowercase one
IsUpper(s) ==
    /\ \E i \in 1..Len(s) : s[i] \in Range(UpperLetters)
    /\ \A i \in 1..Len(s) : s[i] \notin Range(LowerLetters)

IsHeadingColonOnly(stripped) == stripped # <<>> /\ stripped[Len(stripped)] = ":"
\* line 164: stripped.isupper() or stripped.endswith(":")
IsHeading(stripped) ==
    IsUpper(stripped) \/ (stripped # <<>> /\ stripped[Len(stripped)] = ":")

\* the glyphs of line 172; the bullet and the en dash are written <bullet>
\* and <endash>
BulletGlyphs == {"-", "*", "<bullet>", "<endash>"}
\* line 172: stripped.startswith(("-", "*", bullet, en dash))
IsListItem(stripped) == stripped # <<>> /\ stripped[1] \in BulletGlyphs

EndsTerminalExceptPeriod(ln) == ln # <<>> /\ ln[Len(ln)] \in {":", "?", "!"}
\* line 177: re.search(r"[\.:\?!]$", ln)
EndsTerminal(ln) == ln # <<>> /\ ln[Len(ln)] \in {".", ":", "?", "!"}

JoinOnly(l) == JoinLines(l)
\* line 182: "\n".join(out).strip()
Finish(l) == Strip(JoinLines(l))

Last(l) == l[Len(l)]
AppendMerged(l, v) == Append(l, v)
\* out[-1] = v
SetLast(l, v) == [l EXCEPT ![Len(l)] = v]


NormAlphabet == {"A", "a", "1", ".", ":", "-", " ", "\n"}
\* the raw text "TITLE\n\nfoo bar\nbaz.\nqux"
ExampleText == <<"T","I","T","L","E","\n","\n","f","o","o"," ","b","a","r","\n","b","a","z",".","\n","q","u","x">>
LongTexts ==
    { ExampleText,
      <<"a","\n","A","\n","1","\n","a",":">>,
      <<"a",".","\n","\n","\n","-"," ","A","\n","a","\n">>,
      <<" ","\n","a",":","\n","*","1","\n","1","\n","\n"," ","\n","A","?","\n","a","\n"," ","\n">> }
NormTexts == SeqsUpTo(NormAlphabet, MaxNormLen) \cup LongTexts

InitNormalize ==
    /\ stage = "normalize_extracted_text"
    /\ pc = "start"
    /\ norm_text \in NormTexts
    /\ norm_lines = <<>>
    /\ norm_out = <<>>
    /\ norm_result = <<>>
    /\ norm_pass = 1
    /\ AnalyzeIdle
    /\ ExtractIdle
    /\ SanitizerIdle
    /\ RoutesIdle
    /\ SessionIdle
    /\ calls = <<>>
    /\ raised = "none"

\* lines 153-154
NormSplit ==
    /\ stage = "normalize_extracted_text" /\ pc = "start"
    /\ norm_lines' = SplitLines(norm_text)
    /\ norm_out' = <<>>
    /\ pc' = "loop"
    /\ UNCHANGED <<stage, avars, evars, svars, rvars, wvars, calls, norm_pass, norm_text, norm_result, raised>>

\* the loop at line 155 visits a line whose stripped form selects branch b
Visiting(b) ==
    /\ stage = "normalize_extracted_text" /\ pc = "loop"
    /\ norm_lines # <<>>
    /\ LET stripped == Strip(Head(norm_lines)) IN
         b = IF stripped = <<>> THEN "blank"
             ELSE IF IsHeading(stripped) THEN "heading"
             ELSE IF IsListItem(stripped) THEN "list"
             ELSE "prose"
    /\ norm_lines' = Tail(norm_lines)
    /\ UNCHANGED <<stage, pc, avars, evars, svars, rvars, wvars, calls, norm_pass, norm_text, norm_result, raised>>

\* lines 157-161
NormBlank ==
    /\ Visiting("blank")
    /\ norm_out' = IF norm_out # <<>> /\ Last(norm_out) # <<>>
                   THEN Append(norm_out, <<>>)
                   ELSE norm_out

\* lines 164-169
NormHeading ==
    /\ Visiting("heading")
    /\ norm_out' = Append(IF norm_out # <<>> /\ Last(norm_out) # <<>>
                          THEN Append(norm_out, <<>>)
                          ELSE norm_out,
                          Strip(Head(norm_lines)))

\* lines 172-174
NormListItem ==
    /\ Visiting("list")
    /\ norm_out' = Append(norm_out, Strip(Head(norm_lines)))

\* lines 177-178
NormMerge ==
    /\ Visiting("prose")
    /\ norm_out # <<>> /\ Last(norm_out) # <<>> /\ ~ EndsTerminal(Last(norm_out))
    /\ norm_out' = SetLast(norm_out, Last(norm_out) \o <<" ">> \o Strip(Head(norm_lines)))

\* lines 179-180
NormAppend ==
    /\ Visiting("prose")
    /\ ~ (norm_out # <<>> /\ Last(norm_out) # <<>> /\ ~ EndsTerminal(Last(norm_out)))
    /\ norm_out' = Append(norm_out, Strip(Head(norm_lines)))

\* line 182
NormReturn ==
    /\ stage = "normalize_extracted_text" /\ pc = "loop"
    /\ norm_lines = <<>>
    /\ norm_result' = Finish(norm_out)
    /\ pc' = "done"
    /\ UNCHANGED <<stage, avars, evars, svars, rvars, wvars, calls, norm_pass, norm_text, norm_lines, norm_out, raised>>

NextNormalize ==
    \/ NormSplit
    \/ NormBlank
    \/ NormHeading
    \/ NormListItem
    \/ NormMerge
    \/ NormAppend
    \/ NormReturn

SpecNormalize == InitNormalize /\ [][NextNormalize]_vars

\* normalize_extracted_text called on the text it returned (lines 153-182 a
\* second time)
NormAgain ==
    /\ stage = "normalize_extracted_text" /\ pc = "done"
    /\ norm_pass = 1
    /\ norm_text' = norm_result
    /\ norm_lines' = <<>>
    /\ norm_out' = <<>>
    /\ norm_result' = <<>>
    /\ norm_pass' = 2
    /\ pc' = "start"
    /\ UNCHANGED <<stage, avars, evars, svars, rvars, wvars, calls, raised>>

NextNormalizeTwice ==
    \/ NextNormalize
    \/ NormAgain

SpecNormalizeTwice == InitNormalize /\ [][NextNormalizeTwice]_vars

----------------------------------------------------------------------------
(* The routes of main.py: /extract_skills, /create_resume, /upload_resume,
   /analyze_resume *)

RAndD == <<"R", "&", "D">>
Amp == <<"a", "m", "p">>
\* request.get_json() of /analyze_resume: each field present or missing
AnalyzeRequests ==
    { [route |-> "/analyze_resume", fields |-> t \o k \o c] :
        t \in {<<>>} \cup {<<[k |-> "resume_text", v |-> JStr(x)]>> :
                   x \in {EmptyText, CloudResume, <<"R", "&", "D", " ", "l", "a", "b">>}},
        k \in {<<>>} \cup {<<[k |-> "skills", v |-> JList(x)]>> :
                   x \in {<<>>, <<AWS>>, <<RAndD, AWS>>, <<Amp>>}},
        c \in {<<>>, <<[k |-> "skills_by_category", v |-> JObj(RequestTaxonomy)]>>} }

ExtractRequests ==
    { [route |-> "/extract_skills", fields |-> j] :
        j \in {<<>>} \cup {<<[k |-> "job_description", v |-> JStr(x)]>> :
                   x \in {EmptyText, CloudResume}} }

CreateRequests ==
    { [route |-> "/create_resume", fields |-> j] :
        j \in {<<>>} \cup {<<[k |-> "responses", v |-> JStr(x)]>> :
                   x \in {EmptyText, <<"\t">>, CloudResume}} }

\* request.files of /upload_resume: no file part, or a file part with its
\* filename and what the document reader makes of the content
FileParts ==
    { [filename |-> n, content |-> c] :
        n \in {"", "cv.pdf", "cv.docx", "cv.txt"},
        c \in {"pdf", "docx", "other", "unreadable"} }
UploadRequests ==
    { [route |-> "/upload_resume", fields |-> f] :
        f \in {<<>>} \cup {<<[k |-> "file", v |-> [kind |-> "file", val |-> x]]>> : x \in FileParts} }

Requests == AnalyzeRequests \cup ExtractRequests \cup CreateRequests \cup UploadRequests

\* data.get(key, default)
Field(key, default) == Get(request.fields, key, default)

\* the document reader a content type is read by without an exception
ReadBy(file, reader) ==
    \/ reader = "PdfReader" /\ file.content = "pdf"
    \/ reader = "mammoth" /\ file.content = "docx"

\* lines 192-202: the reader chosen from the name or the MIME type of the
\* content; lines 206-218: the reader chosen from the extension
ReaderByMime(file) ==
    IF file.filename \in {"cv.pdf"} \/ file.content = "pdf" THEN "PdfReader"
    ELSE IF file.filename \in {"cv.docx"} \/ file.content = "docx" THEN "mammoth"
    ELSE "unsupported"
ReaderByExtension(file) ==
    IF file.filename = "cv.pdf" THEN "PdfReader"
    ELSE IF file.filename = "cv.docx" THEN "mammoth"
    ELSE "unsupported"

\* lines 184-221: whether extract_text_from_file returns text or raises
Readers(file) ==
    IF ReadBy(file, ReaderByMime(file)) \/ ReadBy(file, ReaderByExtension(file))
    THEN "text" ELSE "raises"

\* a resume as JSON with the sections as keys
ResumeObject ==
    JObj(<< [k |-> "Skills", v |-> JList(<<AWS, Python>>)] >>)
CreateResponses ==
    { OracleRaise, Response("closed", ResumeObject), Response("none", ResumeObject),
      Response("none", TextBody(Sorry)), Response("unclosed", ResumeObject),
      Response("none", JList(<<AWS>>)) }

InitRoutes ==
    /\ stage = "route"
    /\ pc = "dispatch"
    /\ request \in Requests
    /\ status = 0
    /\ AnalyzeIdle
    /\ ExtractIdle
    /\ SanitizerIdle
    /\ NormalizerIdle
    /\ SessionIdle
    /\ calls = <<>>
    /\ raised = "none"

Dispatching(route) == stage = "route" /\ pc = "dispatch" /\ request.route = route

\* lines 1089-1093: get_skills up to the call of extract_skills
GetSkillsRoute ==
    /\ Dispatching("/extract_skills")
    /\ max_length' = DefaultMaxLength
    /\ san_text' = Field("job_description", JStr(<<>>)).val
    /\ san_once' = sanitize_input(Field("job_description", JStr(<<>>)).val, DefaultMaxLength)
    /\ stage' = "extract_skills"
    /\ pc' = "call"
    /\ UNCHANGED <<avars, evars, san_twice, nvars, rvars, wvars, calls, raised>>

\* lines 1154-1162: analyze up to the call of analyze_resume
AnalyzeRoute ==
    /\ Dispatching("/analyze_resume")
    /\ resume_text' = sanitize_input(Field("resume_text", JStr(<<>>)).val, DefaultMaxLength)
    /\ skills' = Field("skills", JList(<<>>)).val
    /\ skills_by_category' =
         IF HasKey(request.fields, "skills_by_category")
         THEN Field("skills_by_category", JNull).val
         ELSE "None"
    /\ stage' = "analyze_resume"
    /\ pc' = "start"
    /\ UNCHANGED <<match_response, match_path, matched_skills, unmatched_skills,
                   match_percentage, category_analysis, qual_response,
                   detailed_analysis, emotion, evars, svars, nvars, rvars, wvars,
                   calls, raised>>


\* lines 1099-1103: create_resume rejects empty responses
CreateResumeRejects ==
    /\ Dispatching("/create_resume")
    /\ sanitize_input(Field("responses", JStr(<<>>)).val, DefaultMaxLength) = <<>>
    /\ status' = 400
    /\ pc' = "responded"
    /\ UNCHANGED <<stage, avars, evars, svars, nvars, request, wvars, calls, raised>>

\* lines 1099-1136: create_resume calls the oracle, parses the response and
\* renders the resume; nothing catches an exception
CreateResumeRoute ==
    /\ Dispatching("/create_resume")
    /\ sanitize_input(Field("responses", JStr(<<>>)).val, DefaultMaxLength) # <<>>
    /\ calls' = Invoke(calls, "create_resume")
    /\ \E resp \in CreateResponses :
         /\ raised' = IF resp.fence = "raise" THEN "OracleError"
                      ELSE IF ~ ExtractJson(resp).ok THEN "JSONDecodeError"
                      ELSE IF ExtractJson(resp).val.kind # "object" THEN "AttributeError"
                      ELSE "none"
         /\ status' = IF resp.fence # "raise" /\ ExtractJson(resp).ok
                         /\ ExtractJson(resp).val.kind = "object"
                      THEN 200 ELSE 500
    /\ pc' = "responded"
    /\ UNCHANGED <<stage, avars, evars, svars, nvars, request, wvars>>

\* lines 1139-1146 and 1151-1152: no file part, an empty filename, or
\* extract_text_from_file raises
UploadRejects ==
    /\ Dispatching("/upload_resume")
    /\ \/ ~ HasKey(request.fields, "file")
       \/ /\ HasKey(request.fields, "file")
          /\ \/ Field("file", JNull).val.filename = ""
             \/ Readers(Field("file", JNull).val) = "raises"
    /\ status' = 400
    /\ pc' = "responded"
    /\ UNCHANGED <<stage, avars, evars, svars, nvars, request, wvars, calls, raised>>

\* lines 1139-1149 and 184-221: the document reader returns the raw text
\* and normalize_extracted_text starts on it
UploadRoute ==
    /\ Dispatching("/upload_resume")
    /\ HasKey(request.fields, "file")
    /\ Field("file", JNull).val.filename # ""
    /\ Readers(Field("file", JNull).val) = "text"
    /\ norm_text' \in LongTexts
    /\ stage' = "normalize_extracted_text"
    /\ pc' = "start"
    /\ UNCHANGED <<avars, evars, svars, norm_lines, norm_out, norm_result, norm_pass,
                   rvars, wvars, calls, raised>>

\* lines 1094-1097, 1150, 1166: the function returned and the route sends
\* its JSON
RouteResponds ==
    /\ stage \in {"extract_skills", "analyze_resume", "normalize_extracted_text"}
    /\ pc = "done"
    /\ request # NoRequest
    /\ status = 0
    /\ status' = 200
    /\ UNCHANGED <<stage, pc, avars, evars, svars, nvars, request, wvars, calls, raised>>

\* the exception left the route: the framework answers 500
RouteFails ==
    /\ stage \in {"extract_skills", "analyze_resume"}
    /\ pc = "raised"
    /\ request # NoRequest
    /\ status = 0
    /\ status' = 500
    /\ UNCHANGED <<stage, pc, avars, evars, svars, nvars, request, wvars, calls, raised>>

NextRoutes ==
    \/ GetSkillsRoute
    \/ AnalyzeRoute
    \/ CreateResumeRejects
    \/ CreateResumeRoute
    \/ UploadRejects
    \/ UploadRoute
    \/ RouteResponds
    \/ RouteFails
    \/ Next
    \/ NextNormalize

SpecRoutes == InitRoutes /\ [][NextRoutes]_vars

----------------------------------------------------------------------------
(* The session-driven variant, src/static/app.py *)

\* the pipeline variables of main.py while app.py runs
PipelineIdle ==
    /\ AnalyzeIdle
    /\ ExtractIdle
    /\ SanitizerIdle
    /\ NormalizerIdle
    /\ RoutesIdle
    /\ calls = <<>>
    /\ raised = "none"

InitSession ==
    /\ stage = "app"
    /\ pc = "serving"
    /\ SessionIdle
    /\ PipelineIdle

ResumeFile(rid) == <<"resume", rid>>
OptimizedFile(rid) == <<"optimized", rid>>

\* lines 46-51: every file whose creation time is more than two hours back
\* is removed
cleanup_old_uploads(dir) ==
    [f \in FileNames |-> IF dir[f] = "old" THEN "absent" ELSE dir[f]]

\* about an hour passes: a file is new (created within the hour), hour (one
\* to two hours old) or old (more than two hours old)
Older(age) ==
    IF age = "new" THEN "hour"
    ELSE IF age = "hour" THEN "old"
    ELSE age

HourPasses ==
    /\ stage = "app"
    /\ \E f \in FileNames : upload_dir[f] \in {"new", "hour"}
    /\ upload_dir' = [f \in FileNames |-> Older(upload_dir[f])]
    /\ UNCHANGED <<stage, pc, avars, evars, svars, nvars, rvars, calls, raised,
                   session, next_rid, outcome>>

\* a request of session s arrives at a route: before_request (lines 54-56)
\* runs cleanup_old_uploads, and the route leaves the main.py pipeline alone
Serving ==
    /\ stage = "app"
    /\ UNCHANGED <<stage, pc, avars, evars, svars, nvars, rvars, calls, raised>>

Answer(s, route, result) == [session |-> s, route |-> route, result |-> result]

\* lines 104-107
Index(s) ==
    /\ Serving
    /\ upload_dir' = cleanup_old_uploads(upload_dir)
    /\ outcome' = Answer(s, "index", "render")
    /\ UNCHANGED <<session, next_rid>>

\* lines 110-115: no file part, or a name that is not PDF, DOCX or TXT
UploadRefused(s) ==
    /\ Serving
    /\ upload_dir' = cleanup_old_uploads(upload_dir)
    /\ outcome' = Answer(s, "upload_resume", "redirect index")
    /\ UNCHANGED <<session, next_rid>>

\* lines 110-125: the file is stored under a fresh uuid and the session is
\* reset to hold it
UploadStored(s) ==
    /\ Serving
    /\ next_rid <= MaxUploads
    /\ upload_dir' = [cleanup_old_uploads(upload_dir) EXCEPT ![ResumeFile(next_rid)] = "new"]
    /\ session' = [session EXCEPT ![s] =
                      [resume_id |-> next_rid, resume_file |-> next_rid, optimized_file |-> 0]]
    /\ next_rid' = next_rid + 1
    /\ outcome' = Answer(s, "upload_resume", "redirect enter_jd")

\* lines 128-135
DeleteResume(s) ==
    /\ Serving
    /\ session' = [session EXCEPT ![s] = EmptySession]
    /\ upload_dir' = IF session[s].resume_file # 0
                     THEN [cleanup_old_uploads(upload_dir) EXCEPT
                              ![ResumeFile(session[s].resume_file)] = "absent"]
                     ELSE cleanup_old_uploads(upload_dir)
    /\ outcome' = Answer(s, "delete_resume", "redirect index")
    /\ UNCHANGED next_rid

\* lines 138-142
EnterJd(s) ==
    /\ Serving
    /\ upload_dir' = cleanup_old_uploads(upload_dir)
    /\ outcome' = Answer(s, "enter_jd",
                         IF session[s].resume_file = 0 THEN "redirect index" ELSE "render")
    /\ UNCHANGED <<session, next_rid>>

\* lines 145-149: an empty job description
SubmitJdEmpty(s) ==
    /\ Serving
    /\ upload_dir' = cleanup_old_uploads(upload_dir)
    /\ outcome' = Answer(s, "submit_jd", "redirect enter_jd")
    /\ UNCHANGED <<session, next_rid>>

\* what reading the stored resume of session s ends in, in directory dir:
\* line 161 or 177 raises KeyError without the key, extract_text raises
\* FileNotFoundError without the file
ReadResume(s, dir) ==
    IF session[s].resume_file = 0 THEN "KeyError"
    ELSE IF dir[ResumeFile(session[s].resume_file)] = "absent" THEN "FileNotFoundError"
    ELSE "read"

\* lines 145-168: call_ai answers or raises (line 156), then the stored
\* resume is read and compared
SubmitJd(s) ==
    /\ Serving
    /\ upload_dir' = cleanup_old_uploads(upload_dir)
    /\ \E ai \in {"answers", "raises"} :
         outcome' = Answer(s, "submit_jd",
                           IF ai = "raises" THEN "AIError"
                           ELSE IF ReadResume(s, upload_dir') = "read" THEN "render"
                           ELSE ReadResume(s, upload_dir'))
    /\ UNCHANGED <<session, next_rid>>

\* lines 171-189: the stored resume is read (line 177), then call_ai raises
\* (line 187) or the read itself raised
SubmitMissingFails(s) ==
    /\ Serving
    /\ upload_dir' = cleanup_old_uploads(upload_dir)
    /\ \E ai \in {"answers", "raises"} :
         /\ ReadResume(s, upload_dir') = "read" => ai = "raises"
         /\ outcome' = Answer(s, "submit_missing",
                              IF ReadResume(s, upload_dir') = "read" THEN "AIError"
                              ELSE ReadResume(s, upload_dir'))
    /\ UNCHANGED <<session, next_rid>>

\* lines 171-195: the optimized PDF is written and recorded in the session
SubmitMissing(s) ==
    /\ Serving
    /\ ReadResume(s, cleanup_old_uploads(upload_dir)) = "read"
    /\ upload_dir' = [cleanup_old_uploads(upload_dir) EXCEPT
                         ![OptimizedFile(session[s].resume_id)] = "new"]
    /\ session' = [session EXCEPT ![s].optimized_file = session[s].resume_id]
    /\ outcome' = Answer(s, "submit_missing", "redirect download")
    /\ UNCHANGED next_rid

\* lines 198-207
Download(s) ==
    /\ Serving
    /\ upload_dir' = cleanup_old_uploads(upload_dir)
    /\ outcome' = Answer(s, "download",
                         IF session[s].optimized_file = 0 THEN "redirect index"
                         ELSE IF upload_dir'[OptimizedFile(session[s].optimized_file)] = "absent"
                         THEN "FileNotFoundError"
                         ELSE "sent")
    /\ UNCHANGED <<session, next_rid>>

NextSession ==
    \/ HourPasses
    \/ \E s \in Sessions : Index(s)
    \/ \E s \in Sessions : UploadRefused(s)
    \/ \E s \in Sessions : UploadStored(s)
    \/ \E s \in Sessions : DeleteResume(s)
    \/ \E s \in Sessions : EnterJd(s)
    \/ \E s \in Sessions : SubmitJdEmpty(s)
    \/ \E s \in Sessions : SubmitJd(s)
    \/ \E s \in Sessions : SubmitMissingFails(s)
    \/ \E s \in Sessions : SubmitMissing(s)
    \/ \E s \in Sessions : Download(s)

SpecSession == InitSession /\ [][NextSession]_vars

----------------------------------------------------------------------------
(* Properties of the reports analyze_resume returns *)

Returned == stage = "analyze_resume" /\ pc = "done"
OracleUnavailable == match_response = OracleRaise /\ qual_response = OracleRaise

\* C1: in every returned report, on either matching path, the matched and
\* the unmatched skills together are exactly the required skills and no
\* skill is in both.
C1_MatchResultInvariant ==
    Returned =>
        /\ PySet(matched_skills) \cup PySet(unmatched_skills) = Range(skills)
        /\ PySet(matched_skills) \cap PySet(unmatched_skills) = {}

\* C2: a raising generate call never leaves the stage that made it: after a
\* failed invocation in extract_skills or analyze_resume no exception has
\* propagated to the caller.
C2_OracleFailureNeverPropagates ==
    (\/ extract_response = OracleRaise
     \/ match_response = OracleRaise
     \/ qual_response = OracleRaise) => raised = "none"

\* C3: whenever the oracle returned some text, extract_skills returns a
\* (taxonomy, flat list) pair and raises nothing.
C3_ExtractNeverFails ==
    (stage = "extract_skills" /\ extract_response \notin {NoResponse, OracleRaise}) =>
        /\ raised = "none"
        /\ pc = "done"
        /\ extract_result # NoResult

\* the matching response is a JSON object whose matched_skills and
\* unmatched_skills are lists
WellShaped(resp) ==
    /\ resp.fence # "raise"
    /\ ExtractJson(resp).ok
    /\ ExtractJson(resp).val.kind = "object"
    /\ Get(ExtractJson(resp).val.val, "matched_skills", JNull).kind = "list"
    /\ Get(ExtractJson(resp).val.val, "unmatched_skills", JNull).kind = "list"

\* C4: a matching response of any other shape sends analyze_resume to the
\* substring fallback, and no exception leaves the function.
C4_MalformedShapeTakesFallback ==
    (stage = "analyze_resume" /\ match_response # NoResponse /\ ~ WellShaped(match_response)) =>
        /\ match_path = "fallback"
        /\ raised = "none"

\* the lowercased sub occurs in the lowercased text at some offset
LiteralSubstring(text, sub) ==
    \E off \in 0..(Len(text) - Len(sub)) :
        \A j \in 1..Len(sub) : LowerChar(text[off + j]) = LowerChar(sub[j])

\* out is the subsequence of inp at the positions idx, in order
IsSelection(out, inp, idx) ==
    /\ Len(out) = Cardinality(idx)
    /\ \A i \in idx : out[Cardinality({h \in idx : h <= i})] = inp[i]

\* C5: on the fallback path matched is exactly the required skills whose
\* lowercased form is a literal substring of the lowercased resume text, in
\* required order, unmatched is exactly the remaining ones, and a second run
\* on the same inputs gives the same lists.
C5_FallbackExact ==
    (stage = "analyze_resume" /\ match_path = "fallback") =>
        /\ IsSelection(matched_skills.val, skills,
                       {i \in 1..Len(skills) : LiteralSubstring(resume_text, skills[i])})
        /\ IsSelection(unmatched_skills.val, skills,
                       {i \in 1..Len(skills) : ~ LiteralSubstring(resume_text, skills[i])})
        /\ matched_skills = JList(FallbackMatched(resume_text, skills))
        /\ unmatched_skills = JList(FallbackUnmatched(skills, matched_skills.val))

C5_Witness ==
    /\ stage = "analyze_resume" /\ match_path = "fallback"
    /\ Len(skills) >= 2
    /\ matched_skills.val # <<>>
    /\ unmatched_skills.val # <<>>
    /\ \E i \in 1..Len(skills) :
          LiteralSubstring(resume_text, skills[i]) /\ ~ Contains(resume_text, skills[i])

ScenarioRun ==
    /\ Returned
    /\ skills = ScenarioSkills
    /\ resume_text = ScenarioResume
    /\ OracleUnavailable

\* C6 as stated: the scenario reports Python only, 33 percent, "Major Gaps".
C6_ScenarioAsStated ==
    ScenarioRun =>
        /\ matched_skills = JList(<<Python>>)
        /\ match_percentage = 33
        /\ emotion = "Major Gaps"

\* C6: with required skills AWS, Python, Leadership, the scenario resume and
\* the oracle unavailable for both calls, the report has matched_skills
\* Python and Leadership, unmatched_skills AWS, 67 percent, "Good Match".
C6_Scenario ==
    ScenarioRun =>
        /\ matched_skills = JList(<<Python, Leadership>>)
        /\ unmatched_skills = JList(<<AWS>>)
        /\ match_percentage = 67
        /\ emotion = "Good Match"

C6_Witness == ScenarioRun /\ match_path = "fallback"

\* C7: the match_percentage of every returned report is in 0..100.
C7_PercentageRange == Returned => match_percentage \in 0..100

Abs(x) == IF x < 0 THEN -x ELSE x
IsTie(m, n) == n > 0 /\ 2 * ((100 * m) % n) = n

\* p is 100*m/n rounded to the nearest integer, an exact tie going to the
\* even neighbour, and 0 when n is 0
RoundedPercentage(p, m, n) ==
    IF n = 0 THEN p = 0
    ELSE /\ 2 * Abs(100 * m - p * n) <= n
         /\ IsTie(m, n) => p % 2 = 0

\* C8: the global percentage and every category percentage are the rounded
\* quotient under one tie rule, 0 for an empty list, and an empty category
\* reports empty matched and unmatched lists.
C8_OneRoundingRule ==
    Returned =>
        /\ RoundedPercentage(match_percentage, PyLen(matched_skills), Len(skills))
        /\ \A i \in 1..Len(category_analysis) :
              LET e == category_analysis[i].v
                  cs == skills_by_category[i].v
              IN  /\ category_analysis[i].k = skills_by_category[i].k
                  /\ RoundedPercentage(e.match_percentage, Len(e.matched), Len(cs))
                  /\ cs = <<>> => e.matched = <<>> /\ e.unmatched = <<>>

C8_Witness ==
    /\ Returned
    /\ IsTie(PyLen(matched_skills), Len(skills))
    /\ \E i \in 1..Len(category_analysis) :
          IsTie(Len(category_analysis[i].v.matched), Len(skills_by_category[i].v))
    /\ \E i \in 1..Len(category_analysis) : skills_by_category[i].v = <<>>

\* C9: in every returned report each category's matched list is a subset of
\* the global matched_skills and its unmatched list a subset of the global
\* unmatched_skills.
C9_CategoryConsistency ==
    Returned =>
        \A i \in 1..Len(category_analysis) :
            /\ Range(category_analysis[i].v.matched) \subseteq PySet(matched_skills)
            /\ Range(category_analysis[i].v.unmatched) \subseteq PySet(unmatched_skills)

----------------------------------------------------------------------------
(* Properties of sanitize_input *)

\* the characters steps 3 and 4 rewrite
EscapedChars == {"<", ">", "&", "\"", "'", BT, "{", "}", "$", "\\"}
HasEscaped(t) == \E i \in 1..Len(t) : t[i] \in EscapedChars

Resanitized == stage = "sanitize_input" /\ pc = "done"

\* C10 as stated: with the default max_length, sanitizing a sanitized string
\* returns it unchanged.
C10_IdempotentAsStated ==
    (Resanitized /\ max_length = DefaultMaxLength) => san_twice = san_once

\* C10: when the sanitized string still fits in max_length, sanitizing it
\* again returns it unchanged exactly if the first max_length characters of
\* the input hold none of the characters steps 3 and 4 rewrite.
C10_IdempotentIffNothingEscaped ==
    (Resanitized /\ Len(san_once) <= max_length) =>
        (san_twice = san_once <=> ~ HasEscaped(Take(san_text, max_length)))

C10_Witness ==
    /\ Resanitized
    /\ max_length = DefaultMaxLength
    /\ HasEscaped(san_text)
    /\ \E i \in 1..Len(san_text) : san_text[i] \in ControlChars
    /\ san_twice # san_once

\* every backtick, brace, dollar sign and backslash of t prefixed by one
\* backslash, everything else kept
RECURSIVE PrefixedOnce(_)
PrefixedOnce(t) ==
    IF t = <<>> THEN <<>>
    ELSE (IF t[1] \in {BT, "{", "}", "$", "\\"} THEN <<"\\", t[1]>> ELSE <<t[1]>>)
             \o PrefixedOnce(Tail(t))

Sanitized == stage = "sanitize_input" /\ pc \in {"resanitize", "done"}
Fence == ProtectedSeqs[1]

\* C11: step 4 leaves each character of a protected sequence prefixed by
\* exactly one backslash: "{" becomes backslash + "{" (two characters), a
\* three-backtick fence becomes three backslash-prefixed backticks (six
\* characters), and in general the result is the HTML-escaped text with one
\* backslash before every protected character.
C11_OneBackslashPerCharacter ==
    (Sanitized /\ max_length = DefaultMaxLength) =>
        /\ san_text = <<"{">> => san_once = <<"\\", "{">>
        /\ san_text = Fence => san_once = <<"\\", BT, "\\", BT, "\\", BT>>
        /\ san_once = PrefixedOnce(HtmlEscape(DropControl(san_text)))

\* reading t left to right, a backslash escaping exactly the next character,
\* some backtick, brace or dollar sign of t is not escaped
RECURSIVE HasUnescaped(_)
HasUnescaped(t) ==
    IF t = <<>> THEN FALSE
    ELSE IF t[1] = "\\" THEN Len(t) >= 2 /\ HasUnescaped(SubSeq(t, 3, Len(t)))
    ELSE t[1] \in {BT, "{", "}", "$"} \/ HasUnescaped(Tail(t))

\* C12: the result of sanitizing twice holds no unescaped backtick, brace or
\* dollar sign.
C12_ResanitizedHasNoUnescaped == Resanitized => ~ HasUnescaped(san_twice)

Min(a, b) == IF a < b THEN a ELSE b
\* the first n characters of t
Prefix(t, n) == [i \in 1..Min(Len(t), n) |-> t[i]]
\* the characters steps 3 and 4 add to t
AddedByEscaping(t) == Len(Neutralize(HtmlEscape(t), 1)) - Len(t)

\* C13: the result is the one steps 2 to 4 give for the first max_length
\* characters alone, a character appended past position max_length changes
\* nothing, and the result is no longer than max_length plus the characters
\* escaping added.
C13_TruncatesFirst ==
    Sanitized =>
        /\ san_once = Neutralize(HtmlEscape(DropControl(Prefix(san_text, max_length))), 1)
        /\ san_once = sanitize_input(Prefix(san_text, max_length), DefaultMaxLength)
        /\ Len(san_text) >= max_length =>
              \A c \in SanAlphabet :
                  sanitize_input(san_text \o <<c>>, max_length) = san_once
        /\ Len(san_once) <= max_length
                              + AddedByEscaping(DropControl(Prefix(san_text, max_length)))

C13_Witness ==
    /\ Sanitized
    /\ Len(san_text) > max_length
    /\ max_length > 0
    /\ HasEscaped(Prefix(san_text, max_length))
    /\ HasEscaped(SubSeq(san_text, max_length + 1, Len(san_text)))
    /\ Len(san_once) > max_length

----------------------------------------------------------------------------
(* Properties of normalize_extracted_text *)

Normalized == stage = "normalize_extracted_text" /\ pc = "done"

\* the pieces of t between its newlines
RECURSIVE LinesOf(_)
LinesOf(t) ==
    IF \E i \in 1..Len(t) : t[i] = "\n"
    THEN LET i == CHOOSE j \in 1..Len(t) : t[j] = "\n" /\ \A h \in 1..(j - 1) : t[h] # "\n"
         IN  <<SubSeq(t, 1, i - 1)>> \o LinesOf(SubSeq(t, i + 1, Len(t)))
    ELSE <<t>>

\* the lines of the returned text; the empty text has none
OutputLines == IF norm_result = <<>> THEN <<>> ELSE LinesOf(norm_result)
\* the stripped lines of the raw text
InputLines == [i \in 1..Len(SplitLines(norm_text)) |-> Strip(SplitLines(norm_text)[i])]

IsBlank(ln) == \A i \in 1..Len(ln) : ln[i] \in Whitespace
StartsWithBullet(ln) == ln # <<>> /\ ln[1] \in {"-", "*", "<bullet>", "<endash>"}
\* all-uppercase (some letter, every letter uppercase) or ending with ":"
HeadingShaped(ln) ==
    /\ ln # <<>>
    /\ \/ ln[Len(ln)] = ":"
       \/ LET letters == {i \in 1..Len(ln) :
                              ln[i] \in Range(UpperLetters) \cup Range(LowerLetters)}
          IN  letters # {} /\ \A i \in letters : ln[i] \in Range(UpperLetters)
IsOutputLine(ln) == \E j \in 1..Len(OutputLines) : OutputLines[j] = ln

\* C14: every list item of the input is a line of the output exactly as it
\* was (stripped), and so is every heading: no prose line was joined to
\* either.
C14_OnlyProseIsExtended ==
    Normalized =>
        \A i \in 1..Len(InputLines) :
            (StartsWithBullet(InputLines[i]) \/ HeadingShaped(InputLines[i]))
                => IsOutputLine(InputLines[i])

Title == <<"T","I","T","L","E">>
FooBar == <<"f","o","o"," ","b","a","r">>
Baz == <<"b","a","z",".">>
Qux == <<"q","u","x">>

\* C15 as stated: for the example text, TITLE is followed by a blank line,
\* "foo bar" is not joined with "baz." (which ends in terminal punctuation),
\* "baz." starts an output line and "qux" is a line of its own.
C15_ExampleAsStated ==
    (Normalized /\ norm_text = ExampleText) =>
        /\ Len(OutputLines) >= 2 /\ OutputLines[1] = Title /\ OutputLines[2] = <<>>
        /\ IsOutputLine(FooBar)
        /\ \E j \in 1..Len(OutputLines) :
              Len(OutputLines[j]) >= Len(Baz) /\ SubSeq(OutputLines[j], 1, Len(Baz)) = Baz
        /\ IsOutputLine(Qux)

\* C15: for the example text the output lines are TITLE, a blank line,
\* "foo bar baz." and "qux": "baz." is joined to "foo bar", which has no
\* terminal punctuation, and "qux" starts a new line because the line
\* before it ends with ".".
C15_Example ==
    (Normalized /\ norm_text = ExampleText) =>
        OutputLines = <<Title, <<>>, FooBar \o <<" ">> \o Baz, Qux>>

C15_Witness == Normalized /\ norm_text = ExampleText /\ Len(OutputLines) = 4

\* C16: the output has no two consecutive blank lines, and neither its first
\* nor its last line is blank.
C16_BlankLinesCollapsed ==
    Normalized =>
        \A j \in 1..Len(OutputLines) :
            IsBlank(OutputLines[j]) =>
                /\ j # 1
                /\ j # Len(OutputLines)
                /\ ~ IsBlank(OutputLines[j + 1])

C16_Witness ==
    /\ Normalized
    /\ Len(InputLines) >= 4
    /\ InputLines[1] = <<>>
    /\ InputLines[Len(InputLines)] = <<>>
    /\ \E i \in 2..(Len(InputLines) - 2) :
          /\ InputLines[i] = <<>> /\ InputLines[i + 1] = <<>>
          /\ \E h \in 1..(i - 1) : InputLines[h] # <<>>
          /\ \E h \in (i + 2)..Len(InputLines) : InputLines[h] # <<>>
    /\ \E j \in 1..Len(OutputLines) : IsBlank(OutputLines[j])

\* C17: every heading-shaped line of the output is the first line or comes
\* right after a blank line.
C17_BlankBeforeHeading ==
    Normalized =>
        \A j \in 1..Len(OutputLines) :
            HeadingShaped(OutputLines[j]) => (j = 1 \/ IsBlank(OutputLines[j - 1]))

C17_Witness ==
    /\ Normalized
    /\ \E j \in 2..Len(OutputLines) :
          /\ HeadingShaped(OutputLines[j])
          /\ \A i \in 1..Len(InputLines) : InputLines[i] # OutputLines[j]
    /\ \E j \in 2..Len(OutputLines) :
          HeadingShaped(OutputLines[j]) /\ OutputLines[j][Len(OutputLines[j])] = ":"

----------------------------------------------------------------------------
(* Properties of the qualitative stage and of the classifier *)

\* the str values inside v, at any depth of lists and of dict values
RECURSIVE StringValues(_)
StringValues(v) ==
    CASE v.kind = "string" -> {v.val}
      [] v.kind = "list" -> UNION {StringValues(v.val[i]) : i \in 1..Len(v.val)}
      [] v.kind = "object" -> UNION {StringValues(v.val[i].v) : i \in 1..Len(v.val)}
      [] OTHER -> {}

HasMarker(t) ==
    \/ Contains(t, <<"*", "*">>)
    \/ Contains(t, <<"~", "~">>)
    \/ \E i \in 1..Len(t) : t[i] \in {BT, "_"}

\* C18: no string value of a returned detailed_analysis, at any depth and on
\* either path, contains "**", a backtick, an underscore or "~~".
C18_NoMarkersLeft ==
    Returned => \A t \in StringValues(detailed_analysis) : ~ HasMarker(t)

QualUnavailable == qual_response = OracleRaise \/ ~ ExtractJson(qual_response).ok
FailsafeKeys == <<"overall_assessment", "recommendations", "priority_skills",
                  "sections_to_improve", "ats_score">>

\* C19: when the qualitative call raised or its response is not JSON, the
\* returned detailed_analysis has exactly the five failsafe keys with the
\* sentinel strings, and priority_skills is a list of at most 3 strings, each
\* a required skill that is not in matched_skills.
C19_FailsafeRecord ==
    (Returned /\ QualUnavailable) =>
        /\ detailed_analysis.kind = "object"
        /\ [i \in 1..Len(detailed_analysis.val) |-> detailed_analysis.val[i].k] = FailsafeKeys
        /\ \A i \in {1, 2, 4, 5} :
              detailed_analysis.val[i] = Failsafe(skills, matched_skills).val[i]
        /\ LET priority == detailed_analysis.val[3].v IN
              /\ priority.kind = "list"
              /\ Len(priority.val) <= 3
              /\ \A i \in 1..Len(priority.val) :
                    /\ priority.val[i].kind = "string"
                    /\ priority.val[i].val \in Range(skills)
                    /\ ~ PyIn(priority.val[i].val, matched_skills)

BandLabels == <<"Critical Gaps", "Major Gaps", "Substantial Gaps", "Moderate Gaps",
                "Minor Gaps", "Fair Match", "Good Match", "Strong Match",
                "Excellent Match", "Outstanding Fit">>
\* the label of band min(9, floor(p / 10))
BandLabel(p) == BandLabels[Min(9, p \div 10) + 1]

\* C20: the emotion of a returned report is the label of the band
\* min(9, floor(p / 10)) of that report's match_percentage p, and the
\* classifier maps 9 to "Critical Gaps", 10 to "Major Gaps", 89 to
\* "Excellent Match" and 90 to "Outstanding Fit".
C20_TenBands ==
    Returned =>
        /\ match_percentage >= 0
        /\ emotion = BandLabel(match_percentage)
        /\ Emotion(9) = "Critical Gaps"
        /\ Emotion(10) = "Major Gaps"
        /\ Emotion(89) = "Excellent Match"
        /\ Emotion(90) = "Outstanding Fit"
        /\ \A p \in 0..100 : Emotion(p) = BandLabel(p)

C20_Witness ==
    /\ Returned
    /\ match_percentage = 90
    /\ emotion = "Outstanding Fit"

----------------------------------------------------------------------------
(* Properties of the structured-output handling and of the call order *)

\* the response is text the oracle returned that is malformed JSON, has an
\* opening fence and no closing one, or is JSON that is not an object
ParseFailure(resp) ==
    /\ resp.fence \notin {"unset", "raise"}
    /\ \/ resp.fence = "unclosed"
       \/ resp.body.kind = "text"
       \/ resp.body.kind # "object"

\* C21: after a parse failure the consuming stage has taken its fallback:
\* extract_skills returns the comma-split result and raises nothing,
\* matching is on the fallback path, and the qualitative stage holds the
\* failsafe record.
C21_ParseFailureTakesFallback ==
    /\ (stage = "extract_skills" /\ ParseFailure(extract_response)) =>
          /\ raised = "none"
          /\ extract_result = CommaFallback(RawText(extract_response))
    /\ (stage = "analyze_resume" /\ ParseFailure(match_response)) =>
          match_path = "fallback"
    /\ (stage = "analyze_resume" /\ pc = "clean_md" /\ ParseFailure(qual_response)) =>
          detailed_analysis = Failsafe(skills, matched_skills)

\* number of calls the log holds for one call site
Count(log, site) == Cardinality({i \in 1..Len(log) : log[i] = site})

\* C22: during one analysis the oracle is called at most once for matching
\* and at most once for the qualitative analysis, in that order; the
\* qualitative call is made only after matching (fallback included) has
\* finished; and right after a failed call the stage holds its fallback
\* result, without another call.
C22_NoRetryStrictOrder ==
    stage = "analyze_resume" =>
        /\ Count(calls, "match") <= 1
        /\ Count(calls, "qualitative") <= 1
        /\ calls \in {<<>>, <<"match">>, <<"match", "qualitative">>}
        /\ Count(calls, "match") = 1 <=> match_response # NoResponse
        /\ Count(calls, "qualitative") = 1 <=> qual_response # NoResponse
        /\ qual_response # NoResponse =>
              /\ match_path \in {"oracle", "fallback"}
              /\ pc \in {"clean_md", "classify", "done"}
        /\ match_response = OracleRaise =>
              /\ match_path = "fallback"
              /\ matched_skills = JList(FallbackMatched(resume_text, skills))
        /\ (pc = "clean_md" /\ qual_response = OracleRaise) =>
              detailed_analysis = Failsafe(skills, matched_skills)

C22_Witness ==
    /\ Returned
    /\ calls = <<"match", "qualitative">>
    /\ match_response = OracleRaise
    /\ qual_response = OracleRaise
    /\ matched_skills.val # <<>>

\* the response is text json.loads rejects
DecodeFailure(resp) ==
    /\ resp.fence \notin {"unset", "raise"}
    /\ resp.fence = "unclosed" \/ resp.body.kind = "text"

\* t without its leading and trailing whitespace
Trimmed(t) ==
    LET inner == {i \in 1..Len(t) : t[i] \notin Whitespace}
    IN  IF inner = {} THEN <<>>
        ELSE SubSeq(t, CHOOSE i \in inner : \A j \in inner : i <= j,
                       CHOOSE i \in inner : \A j \in inner : i >= j)

\* toks are the trimmed pieces of t between its commas, in order
IsTokensOf(toks, t) ==
    LET commas == {i \in 1..Len(t) : t[i] = ","}
        \* position of the k-th comma; 0 and Len(t) + 1 bound the text
        Comma(k) == IF k = 0 THEN 0
                    ELSE IF k > Cardinality(commas) THEN Len(t) + 1
                    ELSE CHOOSE i \in commas : Cardinality({j \in commas : j <= i}) = k
    IN  /\ Len(toks) = Cardinality(commas) + 1
        /\ \A k \in 1..Len(toks) :
              toks[k] = Trimmed(SubSeq(t, Comma(k - 1) + 1, Comma(k) - 1))

\* C24: after a JSON decode error extract_skills returns the taxonomy with
\* exactly the keys Technical Skills, Soft Skills, Domain Knowledge, the
\* first holding the trimmed comma-separated tokens of the response text in
\* order, the other two empty, and the flat list equal to the first.
C24_CommaSplitFallback ==
    (stage = "extract_skills" /\ DecodeFailure(extract_response)) =>
        /\ pc = "done" /\ raised = "none"
        /\ extract_result.skills_json.kind = "object"
        /\ Keys(extract_result.skills_json.val) = CategoryNames
        /\ extract_result.skills_json.val[1].v.kind = "list"
        /\ IsTokensOf(extract_result.skills_json.val[1].v.val, ResponseText(extract_response))
        /\ extract_result.skills_json.val[2].v = JList(<<>>)
        /\ extract_result.skills_json.val[3].v = JList(<<>>)
        /\ extract_result.all_skills = extract_result.skills_json.val[1].v.val

C24_Witness ==
    /\ stage = "extract_skills" /\ pc = "done"
    /\ DecodeFailure(extract_response)
    /\ extract_response.fence = "closed"
    /\ Len(extract_result.all_skills) >= 4
    /\ \E i \in 1..Len(extract_result.all_skills) : extract_result.all_skills[i] = <<>>
    /\ \E i \in 1..Len(extract_result.all_skills) : extract_result.all_skills[i] = Python

\* C25: in every returned report, each category's matched and unmatched
\* lists partition that category's skills: every skill of the category is
\* in exactly one of the two lists, and the lists hold nothing else.
C25_CategoryPartition ==
    Returned =>
        \A i \in 1..Len(category_analysis) :
            LET e == category_analysis[i].v
                cs == skills_by_category[i].v
            IN  /\ Range(e.matched) \cup Range(e.unmatched) = Range(cs)
                /\ Range(e.matched) \cap Range(e.unmatched) = {}
                /\ Len(e.matched) + Len(e.unmatched) = Len(cs)

\* the request lacks a field its route requires, or uploads a file of an
\* unsupported type
InputError(req) ==
    \/ /\ req.route = "/upload_resume"
       /\ \/ ~ HasKey(req.fields, "file")
          \/ Get(req.fields, "file", JNull).val.filename = ""
          \/ Get(req.fields, "file", JNull).val.content \notin {"pdf", "docx"}
    \/ /\ req.route = "/analyze_resume"
       /\ ~ HasKey(req.fields, "resume_text") \/ ~ HasKey(req.fields, "skills")
    \/ /\ req.route = "/extract_skills"
       /\ ~ HasKey(req.fields, "job_description")
    \/ /\ req.route = "/create_resume"
       /\ Get(req.fields, "responses", JStr(<<>>)).val = <<>>

\* C23: a request with an input error gets an error response, no pipeline
\* stage runs for it and no oracle call is made for it.
C23_InputErrorsRejected ==
    InputError(request) =>
        /\ calls = <<>>
        /\ stage = "route"
        /\ status \in {0, 400}

\* C26: on /analyze_resume with the oracle unavailable, a required skill is
\* in matched_skills exactly when its lowercased form is a literal substring
\* of the lowercased resume text as the request submitted it.
C26_SanitizationKeepsMatching ==
    (Returned /\ request.route = "/analyze_resume" /\ match_response = OracleRaise) =>
        \A i \in 1..Len(skills) :
            (\E j \in 1..Len(matched_skills.val) : matched_skills.val[j] = skills[i])
                <=> LiteralSubstring(Field("resume_text", JStr(<<>>)).val, skills[i])

\* C27: normalizing the normalizer's own output returns it unchanged.
C27_NormalizerIdempotent ==
    (stage = "normalize_extracted_text" /\ norm_pass = 2 /\ pc = "done") =>
        norm_result = norm_text

\* the second pass finished on a first result holding a heading, the blank
\* line after it, a merged paragraph and a line kept apart
C27_Witness ==
    /\ stage = "normalize_extracted_text" /\ norm_pass = 2 /\ pc = "done"
    /\ norm_text = <<"T","I","T","L","E","\n","\n","f","o","o"," ","b","a","r"," ",
                     "b","a","z",".","\n","q","u","x">>
    /\ norm_result = norm_text

\* C28: whenever a session holds a resume_file entry the file it names is
\* in the upload directory, and submit_jd and submit_missing never fail to
\* read it.
C28_HeldResumeExists ==
    /\ \A s \in Sessions :
          session[s].resume_file # 0 =>
              upload_dir[ResumeFile(session[s].resume_file)] # "absent"
    /\ outcome.route \in {"submit_jd", "submit_missing"} =>
          outcome.result # "FileNotFoundError"

\* C29: enter_jd, submit_jd, submit_missing and download answer a session
\* that lacks the resume or the optimized file by redirecting, never by
\* failing on a missing session key, and download sends a file only in a
\* session where submit_missing has completed.
C29_MissingKeysRedirect ==
    /\ outcome.route \in {"enter_jd", "submit_jd", "submit_missing", "download"} =>
          outcome.result # "KeyError"
    /\ (outcome.route = "download" /\ outcome.result = "sent") =>
          session[outcome.session].optimized_file # 0

====
